---------------------------- MODULE Spec2Model ----------------------------
(***************************************************************************)
(* State-machine models of the runnable snippets of the repository:        *)
(*   Item 28 (src/src/C4/I28.ts): PageState / changePage / renderPage and   *)
(*            PageState2 / changePage2 / renderPage2                        *)
(*   Item 25 (src/src/C3/I25.ts): the fetchURL pyramid, the callback        *)
(*            fetchWithCache / getUser and the async pair                   *)
(*   Item 17 (src/src/C2/I17.ts): arraySum, arraySum2, printTriangles,      *)
(*            parseTaggedText (first and third version)                    *)
(*   Item 24 (src/src/C3/I24.ts): the pre-check of isPointInPolygon        *)
(* Every snippet is an independent program, so each has its own            *)
(* specification over its own variables; the variables of the other        *)
(* snippets stay at their initial values.                                   *)
(***************************************************************************)
EXTENDS Integers, Sequences, FiniteSets, TLC

VARIABLES
    \* ---- Item 28, PageState2 ----
    currentPage,    \* state.currentPage
    requests,       \* state.requests: a function from the pages present to RequestState
    calls2,         \* the changePage2 calls suspended at an await, by slot
    rendered2,      \* what the last renderPage2 call read and returned
    \* ---- Item 28, PageState ----
    pageText,       \* state.pageText
    isLoading,      \* state.isLoading
    error,          \* state.error: <<>> when undefined, <<s>> when the string s
    calls1,         \* the changePage calls suspended at an await, by slot
    requested,      \* the pages changePage was called with, in call order
    screen,         \* what the last renderPage call returned
    \* ---- Item 25, callback fetchWithCache / getUser ----
    cacheCB,        \* _cache: a function from the cached URLs to their text
    statusCB,       \* requestStatus
    pcCB,           \* where the running getUser call stands, and what it found
    pendingCB,      \* the URLs of the fetchURL callbacks not yet invoked, in call order
    \* ---- Item 25, async fetchWithCache / getUser ----
    cacheAS,        \* _cache
    statusAS,       \* requestStatus
    callsAS,        \* the getUser calls suspended at an await, by slot
    settledAS,      \* how each call that ended has ended, in that order
    \* ---- Item 25, the fetchURL pyramid ----
    stack,          \* the call stack: per frame, the function and its next statement
    pendingPY,      \* the callbacks fetchURL holds and has not invoked yet
    responses,      \* response1.. of the callbacks invoked so far
    logPY,          \* what console.log has printed
    \* ---- Item 17, printTriangles ----
    nTR,            \* the argument n
    iTR,            \* the loop variable i
    numsTR,         \* the array nums
    logTR,          \* what console.log has printed
    pcTR,           \* the next step of printTriangles
    \* ---- Item 17, arraySum ----
    passed,         \* the contents of the array when arraySum was called
    arr,            \* the caller's array, which arraySum works on
    sum,            \* the local sum, and the value returned
    num,            \* the local num: <<>> when undefined, <<x>> when the number x
    pcSUM,          \* the next step of arraySum
    \* ---- Item 17, arraySum2 ----
    passed2,        \* the contents of the array when arraySum2 was called
    arr2,           \* the array passed to arraySum2
    ret2,           \* what arraySum2 returned: <<>> before it returns, <<x>> after
    pcS2,           \* whether arraySum2 has been called or has returned
    \* ---- Item 17, parseTaggedText ----
    lines,          \* the lines parseTaggedText was called with
    linePos,        \* the position in lines of the line the for-of loop takes next
    heapPT,         \* the arrays parseTaggedText has created, by reference
    currPara,       \* the reference held by the local currPara
    paragraphs,     \* the local paragraphs, a list of references
    pcPT,           \* whether parseTaggedText is in its loop or has returned
    \* ---- Item 24, isPointInPolygon ----
    bbox,           \* polygon.bbox: <<>> when absent, <<b>> when the BoundingBox b
    pt,             \* the Coordinate pt
    pcBB            \* where isPointInPolygon is: called, returned false, or past the pre-check

vars28b == <<currentPage, requests, calls2, rendered2>>
vars28a == <<pageText, isLoading, error, calls1, requested, screen>>
varsCB == <<cacheCB, statusCB, pcCB, pendingCB>>
varsAS == <<cacheAS, statusAS, callsAS, settledAS>>
varsPY == <<stack, pendingPY, responses, logPY>>
varsTR == <<nTR, iTR, numsTR, logTR, pcTR>>
varsSUM == <<passed, arr, sum, num, pcSUM>>
varsS2 == <<passed2, arr2, ret2, pcS2>>
varsPT == <<lines, linePos, heapPT, currPara, paragraphs, pcPT>>
varsBB == <<bbox, pt, pcBB>>
vars == <<vars28b, vars28a, varsCB, varsAS, varsPY, varsTR, varsSUM, varsS2, varsPT, varsBB>>
\* what the actions of one snippet leave alone: the variables of the others
other28b == <<vars28a, varsCB, varsAS, varsPY, varsTR, varsSUM, varsS2, varsPT, varsBB>>
other28a == <<vars28b, varsCB, varsAS, varsPY, varsTR, varsSUM, varsS2, varsPT, varsBB>>
otherCB == <<vars28b, vars28a, varsAS, varsPY, varsTR, varsSUM, varsS2, varsPT, varsBB>>
otherAS == <<vars28b, vars28a, varsCB, varsPY, varsTR, varsSUM, varsS2, varsPT, varsBB>>
otherPY == <<vars28b, vars28a, varsCB, varsAS, varsTR, varsSUM, varsS2, varsPT, varsBB>>
otherTR == <<vars28b, vars28a, varsCB, varsAS, varsPY, varsSUM, varsS2, varsPT, varsBB>>
otherSUM == <<vars28b, vars28a, varsCB, varsAS, varsPY, varsTR, varsS2, varsPT, varsBB>>
otherS2 == <<vars28b, vars28a, varsCB, varsAS, varsPY, varsTR, varsSUM, varsPT, varsBB>>
otherPT == <<vars28b, vars28a, varsCB, varsAS, varsPY, varsTR, varsSUM, varsS2, varsBB>>
otherBB == <<vars28b, vars28a, varsCB, varsAS, varsPY, varsTR, varsSUM, varsS2, varsPT>>

(***************************************************************************)
(* Bounds and input sets                                                   *)
(***************************************************************************)
\* the number of calls that may be suspended at an await at the same time
MaxInflight == 2
\* the number of changePage calls of one run (the flag-based model logs them)
MaxCalls == 3
\* the largest argument printTriangles is called with
MaxN == 8
\* the longest array arraySum is called with
MaxLen == 3
\* the most lines parseTaggedText is called with, the example aside
MaxLines == 4
\* the greatest coordinate of the points and the bounding boxes
MaxCoord == 2

Slots == 1..MaxInflight
Pages == {"home", "about"}
\* the revisions of a page's text the server may answer with
Revisions == {"v1", "v2"}
\* res.statusText of a response that is not ok
StatusTexts == {"Not Found"}
\* what fetch or res.text() reject with: a TypeError and its message
NetworkFailures == {"Failed to fetch"}

\* the body the server sends for a page
Body(page, rev) == page \o " " \o rev
Bodies == {Body(p, r) : p \in Pages, r \in Revisions}

\* `${e}` for an Error object: Error.prototype.toString is name + ": " + message
ErrorToString(name, message) == name \o ": " \o message

\* an empty slot, and a call suspended at `await fetch(...)` or `await res.text()`
Idle == [pc |-> "idle", page |-> ""]
Suspended(page, pc) == [pc |-> pc, page |-> page]
FreeSlot(calls) == CHOOSE s \in Slots : calls[s] = Idle /\ \A t \in Slots : calls[t] = Idle => s <= t
HasFreeSlot(calls) == \E s \in Slots : calls[s] = Idle

(***************************************************************************)
(* Item 28: PageState2, renderPage2, changePage2                           *)
(***************************************************************************)
RequestPending == [state |-> "pending"]
\* the error record built by spreading a loaded entry under it
RequestErrorSpread(err) == [state |-> "error", error |-> err, pageText |-> ""]
RequestError(err) == [state |-> "error", error |-> err]
RequestSuccess(text) == [state |-> "ok", pageText |-> text]

\* the strings the catch block of changePage2 can store
Errors2 ==
    {ErrorToString("Error", "Error")}
        \cup {ErrorToString("TypeError", m) : m \in NetworkFailures}

\* the type RequestState
RequestState ==
    {RequestPending}
        \cup {RequestError(e) : e \in Errors2}
        \cup {RequestSuccess(t) : t \in Bodies}

\* state.requests[page] = entry
SetRequest(reqs, page, entry) == (page :> entry) @@ reqs

\* reading .state of an undefined entry throws; the default branch returns undefined
ThrownTypeError == "TypeError: Cannot read properties of undefined"
ReturnedUndefined == "undefined"

\* renderPage2 with the return of the "error" case lost, so that it falls through
renderPage2FallsThrough(cur, reqs) ==
    IF cur \notin DOMAIN reqs THEN ThrownTypeError
    ELSE LET requestState == reqs[cur] IN
         CASE requestState.state = "pending" -> "Loading"
           [] requestState.state = "error" -> "<h1>" \o cur \o "</h1><p>undefined</p>"
           [] requestState.state = "ok" ->
                "<h1>" \o cur \o "</h1><p>" \o requestState.pageText \o "</p>"
           [] OTHER -> ReturnedUndefined

renderPage2(cur, reqs) ==
    IF cur \notin DOMAIN reqs THEN ThrownTypeError
    ELSE LET requestState == reqs[cur] IN
         CASE requestState.state = "pending" -> "Loading"
           [] requestState.state = "error" -> "Error: " \o requestState.error
           [] requestState.state = "ok" ->
                "<h1>" \o cur \o "</h1><p>" \o requestState.pageText \o "</p>"
           [] OTHER -> ReturnedUndefined

NotRendered == <<>>

\* a PageState2 nothing has been requested in yet
Start28b(page) ==
    /\ currentPage = page
    /\ requests = [p \in {} |-> RequestPending]
    /\ calls2 = [s \in Slots |-> Idle]
    /\ rendered2 = NotRendered

\* changePage2 up to its first await
ChangePage2Start(newPage) ==
    /\ HasFreeSlot(calls2)
    /\ requests' = SetRequest(requests, newPage, RequestPending)
    /\ currentPage' = newPage
    /\ calls2' = [calls2 EXCEPT ![FreeSlot(calls2)] = Suspended(newPage, "fetch")]
    /\ UNCHANGED <<rendered2, other28b>>

\* fetch resolved with an ok response: the call goes on to await res.text()
Fetch2Ok(s) ==
    /\ calls2[s].pc = "fetch"
    /\ calls2' = [calls2 EXCEPT ![s] = Suspended(calls2[s].page, "text")]
    /\ UNCHANGED <<currentPage, requests, rendered2, other28b>>

\* Fetch2NotOk with the catch block writing to state.currentPage, not newPage
Fetch2NotOkCurrentPage(s) ==
    /\ calls2[s].pc = "fetch"
    /\ requests' = SetRequest(requests, currentPage,
                              RequestError(ErrorToString("Error", "Error")))
    /\ calls2' = [calls2 EXCEPT ![s] = Idle]
    /\ UNCHANGED <<currentPage, rendered2, other28b>>

\* fetch resolved with a response that is not ok: throw new Error("Error"), caught
Fetch2NotOk(s) ==
    /\ calls2[s].pc = "fetch"
    /\ requests' = SetRequest(requests, calls2[s].page,
                              RequestError(ErrorToString("Error", "Error")))
    /\ calls2' = [calls2 EXCEPT ![s] = Idle]
    /\ UNCHANGED <<currentPage, rendered2, other28b>>

\* fetch or res.text() rejected: the catch block stores `${e}`
Await2Rejected(s, message) ==
    /\ calls2[s].pc \in {"fetch", "text"}
    /\ requests' = SetRequest(requests, calls2[s].page,
                              RequestError(ErrorToString("TypeError", message)))
    /\ calls2' = [calls2 EXCEPT ![s] = Idle]
    /\ UNCHANGED <<currentPage, rendered2, other28b>>

\* res.text() resolved
Text2Ok(s, rev) ==
    /\ calls2[s].pc = "text"
    /\ requests' = SetRequest(requests, calls2[s].page,
                              RequestSuccess(Body(calls2[s].page, rev)))
    /\ calls2' = [calls2 EXCEPT ![s] = Idle]
    /\ UNCHANGED <<currentPage, rendered2, other28b>>

\* a call of renderPage2(state)
RenderPage2 ==
    /\ rendered2' = <<[currentPage |-> currentPage,
                       present |-> currentPage \in DOMAIN requests,
                       entry |-> IF currentPage \in DOMAIN requests
                                 THEN requests[currentPage] ELSE RequestPending,
                       out |-> renderPage2(currentPage, requests)]>>
    /\ rendered2' # rendered2
    /\ UNCHANGED <<currentPage, requests, calls2, other28b>>

Next28b ==
    \/ \E p \in Pages : ChangePage2Start(p)
    \/ \E s \in Slots : Fetch2Ok(s)
    \/ \E s \in Slots : Fetch2NotOk(s)
    \/ \E s \in Slots, m \in NetworkFailures : Await2Rejected(s, m)
    \/ \E s \in Slots, r \in Revisions : Text2Ok(s, r)
    \/ RenderPage2

\* C1: every entry of state.requests is exactly one of the three tagged records:
\* pending with no error and no pageText, error with an error string and no
\* pageText, or ok with a pageText and no error.
C1_OnlyValidStates ==
    \A p \in DOMAIN requests :
        LET r == requests[p] IN
        \/ DOMAIN r = {"state"} /\ r.state = "pending"
        \/ DOMAIN r = {"state", "error"} /\ r.state = "error"
        \/ DOMAIN r = {"state", "pageText"} /\ r.state = "ok"

\* one page has failed, the other has loaded, and a further call is in flight
C1_Witness ==
    /\ DOMAIN requests = Pages
    /\ \E p, q \in Pages : requests[p].state = "error" /\ requests[q].state = "ok"
    /\ \E s \in Slots : calls2[s] # Idle

\* C2 as stated: an entry only ever goes from pending to ok or from pending to
\* error (its creation as pending aside).
C2_OnlyTwoTransitions ==
    [][\A p \in DOMAIN requests :
          requests'[p] # requests[p]
              => requests[p].state = "pending" /\ requests'[p].state \in {"ok", "error"}]_vars

\* the call in slot s, for page p, ends in this step
Completes2(s, p) == calls2[s].page = p /\ calls2[s] # Idle /\ calls2'[s] = Idle

\* C2 amended: an entry has three states and never disappears; an entry is set to
\* pending, whatever it was, by a changePage2 call for its page; it is set to ok
\* by a call for its page whose fetch returned an ok response, when the text
\* arrives, and to error by a call for its page whose fetch or text failed or
\* whose response was not ok, in both cases whatever the entry was (pending, or
\* ok or error once an overlapping call for the same page has ended); nothing
\* else changes an entry.
C2_Transitions ==
    [][/\ DOMAIN requests \subseteq DOMAIN requests'
       /\ \A p \in DOMAIN requests' :
            /\ requests'[p].state \in {"pending", "error", "ok"}
            /\ (p \notin DOMAIN requests \/ requests'[p] # requests[p]) =>
                 \/ /\ requests'[p].state = "pending"
                    /\ currentPage' = p
                    /\ \E s \in Slots : calls2[s] = Idle /\ calls2'[s] = Suspended(p, "fetch")
                 \/ /\ p \in DOMAIN requests
                    /\ requests'[p].state = "ok"
                    /\ \E s \in Slots : Completes2(s, p) /\ calls2[s].pc = "text"
                 \/ /\ p \in DOMAIN requests
                    /\ requests'[p].state = "error"
                    /\ \E s \in Slots : Completes2(s, p)]_vars

\* a page that was rendered as loaded is pending again: ok went back to pending
C2_Witness ==
    /\ rendered2 # NotRendered
    /\ rendered2[1].present
    /\ rendered2[1].entry.state = "ok"
    /\ requests[rendered2[1].currentPage].state = "pending"

\* C3: renderPage2 returns "Loading" for a pending entry of the current page,
\* "Error: " and the error for an error entry, "<h1>" currentPage "</h1><p>"
\* pageText "</p>" for an ok entry, and never the default branch's undefined.
C3_RenderCoversAllTags ==
    rendered2 # NotRendered /\ rendered2[1].present =>
        LET r == rendered2[1] IN
        /\ r.entry.state = "pending" => r.out = "Loading"
        /\ r.entry.state = "error" => r.out = "Error: " \o r.entry.error
        /\ r.entry.state = "ok" =>
              r.out = "<h1>" \o r.currentPage \o "</h1><p>" \o r.entry.pageText \o "</p>"
        /\ r.out # ReturnedUndefined

\* a loaded page has been rendered while the other page's entry is an error
C3_Witness ==
    /\ rendered2 # NotRendered
    /\ rendered2[1].out = "<h1>about</h1><p>about v2</p>"
    /\ "home" \in DOMAIN requests
    /\ requests["home"].state = "error"

(***************************************************************************)
(* Item 28: PageState, renderPage, changePage                              *)
(***************************************************************************)
\* if (state.error): undefined and the empty string are falsy
Truthy(err) == err # <<>> /\ err[1] # ""

\* renderPage testing isLoading before error
renderPageLoadingFirst(err, loading, text) ==
    IF loading THEN "Loading..."
    ELSE IF Truthy(err) THEN "Error: " \o err[1]
    ELSE "<p>" \o text \o "</p>"

renderPage(err, loading, text) ==
    IF Truthy(err) THEN "Error: " \o err[1]
    ELSE IF loading THEN "Loading..."
    ELSE "<p>" \o text \o "</p>"

\* a PageState nothing has been loaded into yet
Start28a ==
    /\ pageText = ""
    /\ isLoading = FALSE
    /\ error = <<>>
    /\ calls1 = [s \in Slots |-> Idle]
    /\ requested = <<>>
    /\ screen = ""

\* changePage up to its first await
ChangePageStart(newPage) ==
    /\ HasFreeSlot(calls1)
    /\ Len(requested) < MaxCalls
    /\ isLoading' = TRUE
    /\ calls1' = [calls1 EXCEPT ![FreeSlot(calls1)] = Suspended(newPage, "fetch")]
    /\ requested' = Append(requested, newPage)
    /\ UNCHANGED <<pageText, error, screen, other28a>>

\* fetch resolved with an ok response: the call goes on to await res.text()
Fetch1Ok(s) ==
    /\ calls1[s].pc = "fetch"
    /\ calls1' = [calls1 EXCEPT ![s] = Suspended(calls1[s].page, "text")]
    /\ UNCHANGED <<pageText, isLoading, error, requested, screen, other28a>>

\* fetch resolved with a response that is not ok: the Error thrown is caught
Fetch1NotOk(s, statusText) ==
    /\ calls1[s].pc = "fetch"
    /\ error' = <<ErrorToString("Error", "Error with loading new page. " \o statusText)>>
    /\ calls1' = [calls1 EXCEPT ![s] = Idle]
    /\ UNCHANGED <<pageText, isLoading, requested, screen, other28a>>

\* fetch or res.text() rejected: the catch block stores `${e}`
Await1Rejected(s, message) ==
    /\ calls1[s].pc \in {"fetch", "text"}
    /\ error' = <<ErrorToString("TypeError", message)>>
    /\ calls1' = [calls1 EXCEPT ![s] = Idle]
    /\ UNCHANGED <<pageText, isLoading, requested, screen, other28a>>

\* Text1Ok dropping the response of a page that is no longer the last requested
Text1OkIfLatest(s, rev) ==
    /\ calls1[s].pc = "text"
    /\ IF calls1[s].page = requested[Len(requested)]
       THEN isLoading' = FALSE /\ pageText' = Body(calls1[s].page, rev)
       ELSE UNCHANGED <<isLoading, pageText>>
    /\ calls1' = [calls1 EXCEPT ![s] = Idle]
    /\ UNCHANGED <<error, requested, screen, other28a>>

\* res.text() resolved
Text1Ok(s, rev) ==
    /\ calls1[s].pc = "text"
    /\ isLoading' = FALSE
    /\ pageText' = Body(calls1[s].page, rev)
    /\ calls1' = [calls1 EXCEPT ![s] = Idle]
    /\ UNCHANGED <<error, requested, screen, other28a>>

\* a call of renderPage(state)
RenderPage ==
    /\ screen' = renderPage(error, isLoading, pageText)
    /\ UNCHANGED <<pageText, isLoading, error, calls1, requested, other28a>>

Next28a ==
    \/ \E p \in Pages : ChangePageStart(p)
    \/ \E s \in Slots : Fetch1Ok(s)
    \/ \E s \in Slots, t \in StatusTexts : Fetch1NotOk(s, t)
    \/ \E s \in Slots, m \in NetworkFailures : Await1Rejected(s, m)
    \/ \E s \in Slots, r \in Revisions : Text1Ok(s, r)
    \/ RenderPage

\* a changePage call fails in this step
Fails1 ==
    \/ \E s \in Slots, t \in StatusTexts : Fetch1NotOk(s, t)
    \/ \E s \in Slots, m \in NetworkFailures : Await1Rejected(s, m)

\* a changePage call starts, gets its response or loads successfully in this step
LoadsOrLoaded1 ==
    \/ \E p \in Pages : ChangePageStart(p)
    \/ \E s \in Slots : Fetch1Ok(s)
    \/ \E s \in Slots, r \in Revisions : Text1Ok(s, r)

\* C4 as stated, its first part: once a changePage call fails, isLoading is
\* left true.
C4_FailureLeavesLoadingTrue ==
    [][Fails1 => isLoading']_vars

\* C4 amended: a failing changePage call leaves isLoading as it is (true, as
\* long as no call has loaded), and state.error is never cleared: once it is
\* set, every later step keeps it set, a call that starts, is loading or loads
\* successfully leaves the old error in place, and renderPage returns "Error: "
\* and that error, never "Loading..." or the page.
C4_ErrorSticks ==
    /\ [](requested # <<>> /\ pageText = "" => isLoading)
    /\ [](Truthy(error) => renderPage(error, isLoading, pageText) = "Error: " \o error[1])
    /\ [][/\ Fails1 => isLoading' = isLoading /\ Truthy(error')
          /\ Truthy(error) =>
               /\ Truthy(error')
               /\ LoadsOrLoaded1 => error' = error
               /\ RenderPage => screen' = "Error: " \o error[1]]_vars

\* the first call failed and ended before the second started (the second call
\* is in the first call's slot); the second is loading and the error was rendered
C4_Witness ==
    /\ requested = <<"home", "about">>
    /\ calls1[1] = Suspended("about", "text")
    /\ pageText = ""
    /\ isLoading
    /\ Truthy(error)
    /\ screen = "Error: " \o error[1]

\* the call in slot s ends in this step
Ends1(s) == calls1[s] # Idle /\ calls1'[s] = Idle

\* C5: what the state holds depends on the order in which the responses come
\* back, not on the order of the calls: a response's text, when it arrives,
\* becomes pageText and clears isLoading even when another page was requested
\* later, and a failing request sets error even when a page requested later has
\* been loaded and rendered.
C5_ResponseOrderDecides ==
    [][\A s \in Slots :
         Ends1(s) =>
            \/ /\ calls1[s].pc = "text"
               /\ error' = error
               /\ ~isLoading'
               /\ \E r \in Revisions : pageText' = Body(calls1[s].page, r)
            \/ /\ Truthy(error')
               /\ pageText' = pageText
               /\ isLoading' = isLoading]_vars

\* both calls loaded, and pageText is the text of the first-requested page
C5_Witness ==
    /\ requested = <<"home", "about">>
    /\ \A s \in Slots : calls1[s] = Idle
    /\ error = <<>>
    /\ ~isLoading
    /\ pageText \in {Body("home", r) : r \in Revisions}

\* the page requested last was rendered, and the other request then failed:
\* the next rendering is the error
C5_NewPageThenError ==
    /\ requested = <<"home", "about">>
    /\ \A s \in Slots : calls1[s] = Idle
    /\ screen \in {"<p>" \o Body("about", r) \o "</p>" : r \in Revisions}
    /\ Truthy(error)
    /\ renderPage(error, isLoading, pageText) = "Error: " \o error[1]

(***************************************************************************)
(* Item 25: the callback fetchWithCache and getUser                        *)
(***************************************************************************)
UserIds == {"1", "2"}
\* `/user/${userId}`
UserUrl(userId) == "/user/" \o userId
Urls == {UserUrl(u) : u \in UserIds}
\* the texts a URL may be answered with
Profiles == {"alice", "bob"}

\* no getUser call is running
NotRunning == [at |-> "idle", url |-> "", hit |-> FALSE]
\* getUser stands before the statement `at`; hit: the callback has already run
Running(at, url, hit) == [at |-> at, url |-> url, hit |-> hit]

StartCB ==
    /\ cacheCB = [u \in {} |-> ""]
    /\ statusCB = "undefined"
    /\ pcCB = NotRunning
    /\ pendingCB = <<>>

\* a sequence without its i-th element
RemoveAt(seq, i) == SubSeq(seq, 1, i - 1) \o SubSeq(seq, i + 1, Len(seq))

\* getUser(userId) is called and calls fetchWithCache
GetUserCB(userId) ==
    /\ pcCB.at = "idle"
    /\ pcCB' = Running("fetchWithCache", UserUrl(userId), FALSE)
    /\ UNCHANGED <<cacheCB, statusCB, pendingCB, otherCB>>

\* the cached branch with the callback put off until the caller has returned
FetchWithCacheHitDeferred ==
    /\ pcCB.at = "fetchWithCache"
    /\ pcCB.url \in DOMAIN cacheCB
    /\ Len(pendingCB) < MaxInflight
    /\ pendingCB' = Append(pendingCB, pcCB.url)
    /\ pcCB' = Running("setLoading", pcCB.url, FALSE)
    /\ UNCHANGED <<cacheCB, statusCB, otherCB>>

\* url in _cache: callback(_cache[url]) runs at once, inside getUser
FetchWithCacheHit ==
    /\ pcCB.at = "fetchWithCache"
    /\ pcCB.url \in DOMAIN cacheCB
    /\ statusCB' = "success"
    /\ pcCB' = Running("setLoading", pcCB.url, TRUE)
    /\ UNCHANGED <<cacheCB, pendingCB, otherCB>>

\* url not in _cache: fetchURL takes the callback and returns
FetchWithCacheMiss ==
    /\ pcCB.at = "fetchWithCache"
    /\ pcCB.url \notin DOMAIN cacheCB
    /\ Len(pendingCB) < MaxInflight
    /\ pendingCB' = Append(pendingCB, pcCB.url)
    /\ pcCB' = Running("setLoading", pcCB.url, FALSE)
    /\ UNCHANGED <<cacheCB, statusCB, otherCB>>

\* requestStatus = 'loading', and getUser returns
SetLoadingCB ==
    /\ pcCB.at = "setLoading"
    /\ statusCB' = "loading"
    /\ pcCB' = Running("idle", pcCB.url, pcCB.hit)
    /\ UNCHANGED <<cacheCB, pendingCB, otherCB>>

\* fetchURL invokes a callback it holds: _cache[url] = text; callback(text)
FetchURLCallback(i, text) ==
    /\ pcCB.at = "idle"
    /\ i \in DOMAIN pendingCB
    /\ pendingCB' = RemoveAt(pendingCB, i)
    /\ cacheCB' = (pendingCB[i] :> text) @@ cacheCB
    /\ statusCB' = "success"
    /\ UNCHANGED <<pcCB, otherCB>>

NextCB ==
    \/ \E u \in UserIds : GetUserCB(u)
    \/ FetchWithCacheHit
    \/ FetchWithCacheMiss
    \/ SetLoadingCB
    \/ \E i \in 1..MaxInflight, t \in Profiles : FetchURLCallback(i, t)

QuiescentCB == pcCB.at = "idle" /\ pendingCB = <<>>

\* C6: when the URL is not cached, getUser returns with requestStatus 'loading'
\* and its callback still held by fetchURL; the callback runs later, outside
\* getUser, and sets 'success'. When the URL is cached, the callback has run
\* inside getUser, requestStatus is 'success' before getUser's last statement and
\* 'loading' after it. So once everything has run, requestStatus is 'success'
\* if the last getUser call missed the cache, and it is 'loading' only if the
\* last call was served from the cache.
C6_StatusDependsOnCache ==
    /\ [](pcCB.at = "setLoading" =>
             /\ pcCB.hit <=> pcCB.url \in DOMAIN cacheCB
             /\ pcCB.hit => statusCB = "success")
    /\ [](QuiescentCB /\ statusCB # "undefined" /\ ~pcCB.hit => statusCB = "success")
    /\ [][/\ pcCB.at = "setLoading" /\ pcCB'.at = "idle" =>
               /\ statusCB' = "loading"
               /\ pcCB.hit => statusCB = "success" /\ pendingCB' = pendingCB
               /\ ~pcCB.hit => \E i \in DOMAIN pendingCB' : pendingCB'[i] = pcCB.url
          /\ Len(pendingCB') < Len(pendingCB) =>
               pcCB.at = "idle" /\ statusCB' = "success"]_vars

\* a getUser call for a cached URL has returned, nothing is left to run, and
\* requestStatus is 'loading'
C6_Witness ==
    /\ QuiescentCB
    /\ pcCB.hit
    /\ pcCB.url \in DOMAIN cacheCB
    /\ statusCB = "loading"

(***************************************************************************)
(* Item 25: the async fetchWithCache and getUser                           *)
(***************************************************************************)
\* an empty slot, and a getUser call suspended at an await: "fetch" and "text"
\* inside fetchWithCache, "resume" when fetchWithCache has returned and getUser's
\* continuation is queued; hit: the URL was in _cache when the call was made
IdleAS == [pc |-> "idle", url |-> "", hit |-> FALSE]
SuspendedAS(pc, url, hit) == [pc |-> pc, url |-> url, hit |-> hit]

StartAS ==
    /\ cacheAS = [u \in {} |-> ""]
    /\ statusAS = "undefined"
    /\ callsAS = [s \in Slots |-> IdleAS]
    /\ settledAS = <<>>

BusyAS == {s \in Slots : callsAS[s] # IdleAS}
\* a continuation is queued: it runs before any fetch or text() is answered
MicrotaskQueued == \E s \in Slots : callsAS[s].pc = "resume"
FreeSlotAS == CHOOSE s \in Slots \ BusyAS : \A t \in Slots \ BusyAS : s <= t
MayCallAS == BusyAS # Slots /\ Len(settledAS) + Cardinality(BusyAS) < MaxCalls

\* the cached call that lets its continuation run before requestStatus = 'loading'
GetUserCachedSuccessFirst(userId) ==
    /\ MayCallAS
    /\ UserUrl(userId) \in DOMAIN cacheAS
    /\ statusAS' = "loading"
    /\ settledAS' = Append(settledAS, "hit")
    /\ UNCHANGED <<cacheAS, callsAS, otherAS>>

\* getUser(userId) for a cached URL, up to `await fetchWithCache(...)`
GetUserCached(userId) ==
    /\ MayCallAS
    /\ UserUrl(userId) \in DOMAIN cacheAS
    /\ statusAS' = "loading"
    /\ callsAS' = [callsAS EXCEPT ![FreeSlotAS] = SuspendedAS("resume", UserUrl(userId), TRUE)]
    /\ UNCHANGED <<cacheAS, settledAS, otherAS>>

\* getUser(userId) for a URL not cached, up to `await fetch(url)`
GetUserUncached(userId) ==
    /\ MayCallAS
    /\ UserUrl(userId) \notin DOMAIN cacheAS
    /\ statusAS' = "loading"
    /\ callsAS' = [callsAS EXCEPT ![FreeSlotAS] = SuspendedAS("fetch", UserUrl(userId), FALSE)]
    /\ UNCHANGED <<cacheAS, settledAS, otherAS>>

\* fetch resolved: fetchWithCache goes on to await response.text()
FetchResolvedAS(s) ==
    /\ ~MicrotaskQueued
    /\ callsAS[s].pc = "fetch"
    /\ callsAS' = [callsAS EXCEPT ![s].pc = "text"]
    /\ UNCHANGED <<cacheAS, statusAS, settledAS, otherAS>>

\* fetch or response.text() rejected: fetchWithCache and getUser reject
AwaitRejectedAS(s) ==
    /\ ~MicrotaskQueued
    /\ callsAS[s].pc \in {"fetch", "text"}
    /\ callsAS' = [callsAS EXCEPT ![s] = IdleAS]
    /\ settledAS' = Append(settledAS, "rejected")
    /\ UNCHANGED <<cacheAS, statusAS, otherAS>>

\* response.text() resolved: _cache[url] = text; return text
TextResolvedAS(s, text) ==
    /\ ~MicrotaskQueued
    /\ callsAS[s].pc = "text"
    /\ cacheAS' = (callsAS[s].url :> text) @@ cacheAS
    /\ callsAS' = [callsAS EXCEPT ![s].pc = "resume"]
    /\ UNCHANGED <<statusAS, settledAS, otherAS>>

\* getUser's continuation: requestStatus = 'success'
ResumeAS(s) ==
    /\ callsAS[s].pc = "resume"
    /\ statusAS' = "success"
    /\ callsAS' = [callsAS EXCEPT ![s] = IdleAS]
    /\ settledAS' = Append(settledAS, IF callsAS[s].hit THEN "hit" ELSE "miss")
    /\ UNCHANGED <<cacheAS, otherAS>>

NextAS ==
    \/ \E u \in UserIds : GetUserCached(u)
    \/ \E u \in UserIds : GetUserUncached(u)
    \/ \E s \in Slots : FetchResolvedAS(s)
    \/ \E s \in Slots : AwaitRejectedAS(s)
    \/ \E s \in Slots, t \in Profiles : TextResolvedAS(s, t)
    \/ \E s \in Slots : ResumeAS(s)

QuiescentAS == BusyAS = {}

Depth == 3
\* what fetchURL passes to a callback
Responses == {"r1", "r2", "r3", "r4"}

\* level 0 is the top-level code, level k the callback passed to the k-th fetchURL
Frame(level, at) == [level |-> level, at |-> at]

\* the number the function at a level logs
logArg(level) ==
    CASE level = 0 -> 4
      [] level = 1 -> 3
      [] level = 2 -> 2
      [] level = 3 -> 1

\* fetchURL(url, callback): takes the callback and returns
fetchURL(pending, callback) == pending \cup {callback}

StartPY ==
    /\ stack = <<Frame(0, "fetchURL")>>
    /\ pendingPY = {}
    /\ responses = <<>>
    /\ logPY = <<>>

Top == stack[Len(stack)]
Pop == SubSeq(stack, 1, Len(stack) - 1)
\* the first statement of a callback: the innermost one only logs
FirstStatement(level) == IF level = Depth THEN "log" ELSE "fetchURL"

\* the running function calls fetchURL with the next callback
CallFetchURL ==
    /\ stack # <<>>
    /\ Top.at = "fetchURL"
    /\ pendingPY' = fetchURL(pendingPY, Top.level + 1)
    /\ stack' = Append(Pop, Frame(Top.level, "log"))
    /\ UNCHANGED <<responses, logPY, otherPY>>

\* the running function logs its number and returns
ConsoleLog ==
    /\ stack # <<>>
    /\ Top.at = "log"
    /\ logPY' = Append(logPY, logArg(Top.level))
    /\ stack' = Pop
    /\ UNCHANGED <<pendingPY, responses, otherPY>>

\* fetchURL invoking a callback while its caller is still running
InvokeCallbackReentrant(callback, response) ==
    /\ callback \in pendingPY
    /\ pendingPY' = pendingPY \ {callback}
    /\ responses' = Append(responses, response)
    /\ stack' = Append(stack, Frame(callback, FirstStatement(callback)))
    /\ UNCHANGED <<logPY, otherPY>>

\* fetchURL invokes a callback it holds, once the code that called it has run
\* to completion
InvokeCallback(callback, response) ==
    /\ stack = <<>>
    /\ callback \in pendingPY
    /\ pendingPY' = pendingPY \ {callback}
    /\ responses' = Append(responses, response)
    /\ stack' = <<Frame(callback, FirstStatement(callback))>>
    /\ UNCHANGED <<logPY, otherPY>>

NextPY ==
    \/ CallFetchURL
    \/ ConsoleLog
    \/ \E k \in 1..Depth, r \in Responses : InvokeCallback(k, r)

\* C8: the program logs 4, 3, 2, 1 in that order: what is logged is always the
\* start of 4, 3, 2, 1, a callback runs only after the function that passed it
\* to fetchURL has logged, and when nothing is left to run all four are logged.
C8_LogsFourThreeTwoOne ==
    /\ Len(logPY) <= 4
    /\ logPY = SubSeq(<<4, 3, 2, 1>>, 1, Len(logPY))
    /\ \A i \in DOMAIN stack : Len(logPY) >= stack[i].level
    /\ stack = <<>> /\ pendingPY = {} => logPY = <<4, 3, 2, 1>>

\* every callback has run and returned
C8_Witness ==
    /\ stack = <<>>
    /\ pendingPY = {}
    /\ Len(responses) = Depth
    /\ logPY = <<4, 3, 2, 1>>

(***************************************************************************)
(* Item 17: arraySum2 and printTriangles                                   *)
(***************************************************************************)
RECURSIVE ForInSum(_, _, _)
RECURSIVE ForOfSum(_, _, _)
\* the loop written with for-in, which visits the indices and not the elements
ForInSum(a, k, acc) ==
    IF k > Len(a) THEN acc ELSE ForInSum(a, k + 1, acc + (k - 1))

\* for (const num of arr) sum += num, from the k-th element on
ForOfSum(a, k, acc) ==
    IF k > Len(a) THEN acc ELSE ForOfSum(a, k + 1, acc + a[k])

\* a call's outcome: the value returned and the argument array after the call
Outcome(ret, a) == [ret |-> ret, arr |-> a]

\* arraySum2 emptying its argument, as the pop-based arraySum does
arraySum2Popping(a) == Outcome(ForOfSum(a, 1, 0), <<>>)

arraySum2(a) == Outcome(ForOfSum(a, 1, 0), a)

StartTR(n) ==
    /\ nTR = n
    /\ iTR = 0
    /\ numsTR = <<>>
    /\ logTR = <<>>
    /\ pcTR = "test"

\* i < n
LoopTestTR ==
    /\ pcTR = "test"
    /\ pcTR' = IF iTR < nTR THEN "push" ELSE "done"
    /\ UNCHANGED <<nTR, iTR, numsTR, logTR, otherTR>>

\* nums.push(i)
PushTR ==
    /\ pcTR = "push"
    /\ numsTR' = Append(numsTR, iTR)
    /\ pcTR' = "log"
    /\ UNCHANGED <<nTR, iTR, logTR, otherTR>>

\* console.log(arraySum2(nums)); i++
LogTR ==
    /\ pcTR = "log"
    /\ logTR' = Append(logTR, arraySum2(numsTR).ret)
    /\ numsTR' = arraySum2(numsTR).arr
    /\ iTR' = iTR + 1
    /\ pcTR' = "test"
    /\ UNCHANGED <<nTR, otherTR>>

NextTR ==
    \/ LoopTestTR
    \/ PushTR
    \/ LogTR

\* C9: printTriangles(n) logs n lines, the k-th (k = 0..n-1) being 0+1+...+k,
\* that is k(k+1)/2; printTriangles(5) logs 0, 1, 3, 6, 10.
C9_LogsTriangularNumbers ==
    /\ \A k \in 0..(Len(logTR) - 1) : logTR[k + 1] = (k * (k + 1)) \div 2
    /\ Len(logTR) = iTR
    /\ pcTR = "done" => Len(logTR) = nTR
    /\ pcTR = "done" /\ nTR = 5 => logTR = <<0, 1, 3, 6, 10>>

\* printTriangles(5) has returned
C9_Witness ==
    /\ pcTR = "done"
    /\ nTR = 5
    /\ logTR = <<0, 1, 3, 6, 10>>

(***************************************************************************)
(* Item 17: the pop-based arraySum                                         *)
(***************************************************************************)
\* the numbers the arrays hold
Numbers == {-1, 0, 1, 2}
Arrays == UNION {[1..len -> Numbers] : len \in 0..MaxLen}

\* arr.pop(): the element removed, undefined for an empty array, and what is left
pop(a) ==
    IF a = <<>> THEN [ret |-> <<>>, arr |-> a]
    ELSE [ret |-> <<a[Len(a)]>>, arr |-> SubSeq(a, 1, Len(a) - 1)]

\* the loop condition testing num for truth
truthy(x) == x # <<>> /\ x[1] # 0

\* num !== undefined
notUndefined(x) == x # <<>>

StartSUM(a) ==
    /\ passed = a
    /\ arr = a
    /\ sum = 0
    /\ num = <<>>
    /\ pcSUM = "test"

\* (num = arr.pop()) !== undefined
PopTestSUM ==
    /\ pcSUM = "test"
    /\ num' = pop(arr).ret
    /\ arr' = pop(arr).arr
    /\ pcSUM' = IF notUndefined(num') THEN "body" ELSE "returned"
    /\ UNCHANGED <<passed, sum, otherSUM>>

\* sum += num
AddSUM ==
    /\ pcSUM = "body"
    /\ sum' = sum + num[1]
    /\ pcSUM' = "test"
    /\ UNCHANGED <<passed, arr, num, otherSUM>>

NextSUM ==
    \/ PopTestSUM
    \/ AddSUM

\* the sum of the numbers of a sequence, first to last
RECURSIVE SumOfAll(_)
SumOfAll(a) == IF a = <<>> THEN 0 ELSE a[1] + SumOfAll(Tail(a))

\* C10: arraySum returns the sum of all the numbers of the array passed to it,
\* and leaves that array empty.
C10_SumsAndEmpties ==
    pcSUM = "returned" => sum = SumOfAll(passed) /\ arr = <<>>

\* arraySum([2, 0, 1]) has returned 3 and the array is empty
C10_Witness ==
    /\ pcSUM = "returned"
    /\ passed = <<2, 0, 1>>
    /\ sum = 3
    /\ arr = <<>>

(***************************************************************************)
(* Item 17: a call of arraySum2                                            *)
(***************************************************************************)
StartS2(a) ==
    /\ passed2 = a
    /\ arr2 = a
    /\ ret2 = <<>>
    /\ pcS2 = "call"

\* arraySum2(arr) runs and returns
CallArraySum2 ==
    /\ pcS2 = "call"
    /\ ret2' = <<arraySum2(arr2).ret>>
    /\ arr2' = arraySum2(arr2).arr
    /\ pcS2' = "returned"
    /\ UNCHANGED <<passed2, otherS2>>

NextS2 ==
    \/ CallArraySum2

\* C11: arraySum2 returns the sum of the array's elements and leaves the array
\* unchanged: the same length and the same elements in the same order.
C11_SumsAndLeavesArray ==
    pcS2 = "returned" =>
        /\ ret2 = <<SumOfAll(passed2)>>
        /\ Len(arr2) = Len(passed2)
        /\ \A k \in 1..Len(passed2) : arr2[k] = passed2[k]

\* arraySum2([2, 0, 1]) has returned 3 and the array still holds 2, 0, 1
C11_Witness ==
    /\ pcS2 = "returned"
    /\ passed2 = <<2, 0, 1>>
    /\ ret2 = <<3>>
    /\ arr2 = <<2, 0, 1>>

(***************************************************************************)
(* Item 17: parseTaggedText, the aliasing version and the let/concat one   *)
(*                                                                         *)
(* Arrays are objects: heapPT[r] is the contents of the array with the     *)
(* reference r, currPara and the entries of paragraphs are references.     *)
(***************************************************************************)
\* the example at the beginning of the item, one string per line
Example ==
    << "Frankenstein; or, The Modern Prometheus",
       "by Mary Shelley",
       "",
       "You will rejoice to hear that no disaster has accompanied the commencement",
       "of an enterprise which you have regarded with such evil forebodings. I arrived",
       "here yesterday, and my first task is to assure my dear sister of my welfare and",
       "increasing confidence in the success of my undertaking.",
       "",
       "I am already far north of London, and as I walk in the streets of Petersburgh,",
       "I feel a cold northern breeze play upon my cheeks, which braces my nerves and",
       "fills me with delight." >>

\* the lines of the inputs: the empty string is the blank line
LineValues == {"", "a", "b"}
Inputs == UNION {[1..len -> LineValues] : len \in 0..MaxLines} \cup {Example}

\* the state a call of addParagraph leaves behind
AfterAdd(h, cp, ps) == [heap |-> h, currPara |-> cp, paragraphs |-> ps]

\* addParagraph pushing a copy of currPara before clearing it
addParagraphCopying(h, cp, ps) ==
    IF Len(h[cp]) # 0
    THEN AfterAdd(Append([h EXCEPT ![cp] = <<>>], h[cp]), cp, Append(ps, Len(h) + 1))
    ELSE AfterAdd(h, cp, ps)

\* if (currPara.length) { paragraphs.push(currPara); currPara.length = 0; }
addParagraphConst(h, cp, ps) ==
    IF Len(h[cp]) # 0
    THEN AfterAdd([h EXCEPT ![cp] = <<>>], cp, Append(ps, cp))
    ELSE AfterAdd(h, cp, ps)

\* addParagraph without the assignment currPara = []
addParagraphNoReset(h, cp, ps) ==
    IF Len(h[cp]) # 0
    THEN AfterAdd(h, cp, Append(ps, cp))
    ELSE AfterAdd(h, cp, ps)

\* if (currPara.length) { paragraphs.push(currPara); currPara = []; }
addParagraphLet(h, cp, ps) ==
    IF Len(h[cp]) # 0
    THEN AfterAdd(Append(h, <<>>), Len(h) + 1, Append(ps, cp))
    ELSE AfterAdd(h, cp, ps)

\* const paragraphs = []; currPara = []; the for-of loop is at the first line
StartPT(input) ==
    /\ lines = input
    /\ linePos = 1
    /\ heapPT = << <<>> >>
    /\ currPara = 1
    /\ paragraphs = <<>>
    /\ pcPT = "loop"

\* ---- the first version: const currPara, push, length = 0 ----
\* if (!line) addParagraph();
BlankLineConst ==
    /\ pcPT = "loop"
    /\ linePos <= Len(lines)
    /\ lines[linePos] = ""
    /\ heapPT' = addParagraphConst(heapPT, currPara, paragraphs).heap
    /\ currPara' = addParagraphConst(heapPT, currPara, paragraphs).currPara
    /\ paragraphs' = addParagraphConst(heapPT, currPara, paragraphs).paragraphs
    /\ linePos' = linePos + 1
    /\ UNCHANGED <<lines, pcPT, otherPT>>

\* else currPara.push(line);
TextLineConst ==
    /\ pcPT = "loop"
    /\ linePos <= Len(lines)
    /\ lines[linePos] # ""
    /\ heapPT' = [heapPT EXCEPT ![currPara] = Append(@, lines[linePos])]
    /\ linePos' = linePos + 1
    /\ UNCHANGED <<lines, currPara, paragraphs, pcPT, otherPT>>

\* after the loop: addParagraph(); return paragraphs;
ReturnConst ==
    /\ pcPT = "loop"
    /\ linePos > Len(lines)
    /\ heapPT' = addParagraphConst(heapPT, currPara, paragraphs).heap
    /\ currPara' = addParagraphConst(heapPT, currPara, paragraphs).currPara
    /\ paragraphs' = addParagraphConst(heapPT, currPara, paragraphs).paragraphs
    /\ pcPT' = "returned"
    /\ UNCHANGED <<lines, linePos, otherPT>>

NextPT1 ==
    \/ BlankLineConst
    \/ TextLineConst
    \/ ReturnConst

\* ---- the third version: let currPara, concat, currPara = [] ----
\* if (!line) addParagraph();
BlankLineLet ==
    /\ pcPT = "loop"
    /\ linePos <= Len(lines)
    /\ lines[linePos] = ""
    /\ heapPT' = addParagraphLet(heapPT, currPara, paragraphs).heap
    /\ currPara' = addParagraphLet(heapPT, currPara, paragraphs).currPara
    /\ paragraphs' = addParagraphLet(heapPT, currPara, paragraphs).paragraphs
    /\ linePos' = linePos + 1
    /\ UNCHANGED <<lines, pcPT, otherPT>>

\* else currPara = currPara.concat([line]); concat returns a new array
TextLineLet ==
    /\ pcPT = "loop"
    /\ linePos <= Len(lines)
    /\ lines[linePos] # ""
    /\ heapPT' = Append(heapPT, heapPT[currPara] \o <<lines[linePos]>>)
    /\ currPara' = Len(heapPT) + 1
    /\ linePos' = linePos + 1
    /\ UNCHANGED <<lines, paragraphs, pcPT, otherPT>>

\* after the loop: addParagraph(); return paragraphs;
ReturnLet ==
    /\ pcPT = "loop"
    /\ linePos > Len(lines)
    /\ heapPT' = addParagraphLet(heapPT, currPara, paragraphs).heap
    /\ currPara' = addParagraphLet(heapPT, currPara, paragraphs).currPara
    /\ paragraphs' = addParagraphLet(heapPT, currPara, paragraphs).paragraphs
    /\ pcPT' = "returned"
    /\ UNCHANGED <<lines, linePos, otherPT>>

NextPT3 ==
    \/ BlankLineLet
    \/ TextLineLet
    \/ ReturnLet

\* the positions at which a paragraph of the input starts and ends
RunStarts == {k \in 1..Len(lines) : lines[k] # "" /\ (k = 1 \/ lines[k - 1] = "")}
RunEnds == {k \in 1..Len(lines) : lines[k] # "" /\ (k = Len(lines) \/ lines[k + 1] = "")}
\* the n-th smallest member of a set of positions
Nth(S, n) == CHOOSE k \in S : Cardinality({j \in S : j <= k}) = n
\* the n-th paragraph of the input
Run(n) == SubSeq(lines, Nth(RunStarts, n), Nth(RunEnds, n))

\* C12: the first parseTaggedText returns one entry per paragraph of the input,
\* every entry is the same array object and that array is empty at return; for
\* the three-paragraph example the result is [ [], [], [] ].
C12_SameEmptyArrayPerParagraph ==
    pcPT = "returned" =>
        /\ Len(paragraphs) = Cardinality(RunStarts)
        /\ \A n, m \in 1..Len(paragraphs) : paragraphs[n] = paragraphs[m]
        /\ \A n \in 1..Len(paragraphs) : heapPT[paragraphs[n]] = <<>>
        /\ lines = Example =>
               [n \in 1..Len(paragraphs) |-> heapPT[paragraphs[n]]] = << <<>>, <<>>, <<>> >>

\* the first version has returned three times the same empty array for the example
C12_Witness ==
    /\ pcPT = "returned"
    /\ lines = Example
    /\ paragraphs = <<1, 1, 1>>
    /\ heapPT[1] = <<>>

\* C13: the let/concat parseTaggedText returns the paragraphs of the input, the
\* maximal runs of consecutive non-empty lines in input order, each as an array
\* of its own; none is empty, and an array already pushed is never changed.
C13_ReturnsTheParagraphs ==
    /\ [](pcPT = "returned" =>
             /\ Len(paragraphs) = Cardinality(RunStarts)
             /\ \A n \in 1..Len(paragraphs) :
                    /\ heapPT[paragraphs[n]] = Run(n)
                    /\ heapPT[paragraphs[n]] # <<>>
             /\ \A n, m \in 1..Len(paragraphs) : n # m => paragraphs[n] # paragraphs[m])
    /\ [][\A n \in 1..Len(paragraphs) :
             /\ n <= Len(paragraphs')
             /\ paragraphs'[n] = paragraphs[n]
             /\ heapPT'[paragraphs[n]] = heapPT[paragraphs[n]]]_vars

\* the let/concat version has returned the two paragraphs of a, b, blank, b
C13_Witness ==
    /\ pcPT = "returned"
    /\ lines = <<"a", "b", "", "b">>
    /\ Len(paragraphs) = 2
    /\ heapPT[paragraphs[1]] = <<"a", "b">>
    /\ heapPT[paragraphs[2]] = <<"b">>

(***************************************************************************)
(* Item 24: the bounding-box pre-check of isPointInPolygon                 *)
(***************************************************************************)
Coords == 0..MaxCoord
\* a [number, number] tuple holding the least and the greatest coordinate
Ranges == {t \in Coords \X Coords : t[1] <= t[2]}
\* BoundingBox
BoundingBoxes == [x : Ranges, y : Ranges]
\* Coordinate
Coordinates == [x : Coords, y : Coords]
\* t[i] of a tuple, counted from 0
At(t, i) == t[i + 1]

\* the condition of the inner if: pt.x < bbox.x[0] || pt.x > bbox.x[1]
\*                             || pt.y < bbox.y[1] || pt.y > bbox.y[1]
OutsideBBox(box, p) ==
    \/ p.x < At(box.x, 0)
    \/ p.x > At(box.x, 1)
    \/ p.y < At(box.y, 1)
    \/ p.y > At(box.y, 1)

\* isPointInPolygon(polygon, pt) is called; bbox is <<>> when absent
StartBB(b, p) ==
    /\ bbox = b
    /\ pt = p
    /\ pcBB = "call"

\* if (polygon.bbox) { if (...) { return false; } }
ReturnFalse ==
    /\ pcBB = "call"
    /\ bbox # <<>>
    /\ OutsideBBox(bbox[1], pt)
    /\ pcBB' = "returned false"
    /\ UNCHANGED <<bbox, pt, otherBB>>

\* the pre-check does not return: the function goes on to the complex check
PassPreCheck ==
    /\ pcBB = "call"
    /\ ~(bbox # <<>> /\ OutsideBBox(bbox[1], pt))
    /\ pcBB' = "complex check"
    /\ UNCHANGED <<bbox, pt, otherBB>>

NextBB ==
    \/ ReturnFalse
    \/ PassPreCheck

\* C14: with polygon.bbox present the pre-check returns false exactly when pt
\* lies outside the box (pt.x < bbox.x[0] or pt.x > bbox.x[1] or pt.y < bbox.y[0]
\* or pt.y > bbox.y[1]), so a point inside the box is never rejected; with bbox
\* absent the pre-check rejects nothing.
C14_RejectsExactlyOutside ==
    pcBB # "call" =>
        /\ bbox # <<>> =>
               (pcBB = "returned false" <=>
                    \/ pt.x < bbox[1].x[1]
                    \/ pt.x > bbox[1].x[2]
                    \/ pt.y < bbox[1].y[1]
                    \/ pt.y > bbox[1].y[2])
        /\ bbox = <<>> => pcBB # "returned false"

\* the point (1, 1) has been rejected by the pre-check of the box [0, 2] x [0, 2]
C14_Witness ==
    /\ pcBB = "returned false"
    /\ bbox = <<[x |-> <<0, 2>>, y |-> <<0, 2>>]>>
    /\ pt = [x |-> 1, y |-> 1]

\* C14, the part that holds: a point the pre-check lets through is inside the
\* box when there is one, and without a box the pre-check rejects nothing.
C14_PassedIsInside ==
    /\ pcBB = "complex check" /\ bbox # <<>> =>
           /\ bbox[1].x[1] <= pt.x /\ pt.x <= bbox[1].x[2]
           /\ bbox[1].y[1] <= pt.y /\ pt.y <= bbox[1].y[2]
    /\ bbox = <<>> => pcBB # "returned false"

(***************************************************************************)
(* Specifications: one per snippet, the other snippets at rest             *)
(***************************************************************************)
Init28b ==
    /\ \E page \in Pages : Start28b(page)
    /\ Start28a /\ StartCB /\ StartAS /\ StartPY /\ StartTR(0) /\ StartSUM(<<>>) /\ StartS2(<<>>) /\ StartPT(<<>>) /\ StartBB(<<>>, [x |-> 0, y |-> 0])

Init28a ==
    /\ Start28a
    /\ Start28b("home") /\ StartCB /\ StartAS /\ StartPY /\ StartTR(0) /\ StartSUM(<<>>) /\ StartS2(<<>>) /\ StartPT(<<>>) /\ StartBB(<<>>, [x |-> 0, y |-> 0])

InitCB ==
    /\ StartCB
    /\ Start28b("home") /\ Start28a /\ StartAS /\ StartPY /\ StartTR(0) /\ StartSUM(<<>>) /\ StartS2(<<>>) /\ StartPT(<<>>) /\ StartBB(<<>>, [x |-> 0, y |-> 0])

InitAS ==
    /\ StartAS
    /\ Start28b("home") /\ Start28a /\ StartCB /\ StartPY /\ StartTR(0) /\ StartSUM(<<>>) /\ StartS2(<<>>) /\ StartPT(<<>>) /\ StartBB(<<>>, [x |-> 0, y |-> 0])

InitPY ==
    /\ StartPY
    /\ Start28b("home") /\ Start28a /\ StartCB /\ StartAS /\ StartTR(0) /\ StartSUM(<<>>) /\ StartS2(<<>>) /\ StartPT(<<>>) /\ StartBB(<<>>, [x |-> 0, y |-> 0])

InitTR ==
    /\ \E n \in 0..MaxN : StartTR(n)
    /\ Start28b("home") /\ Start28a /\ StartCB /\ StartAS /\ StartPY /\ StartSUM(<<>>) /\ StartS2(<<>>) /\ StartPT(<<>>) /\ StartBB(<<>>, [x |-> 0, y |-> 0])

InitSUM ==
    /\ \E a \in Arrays : StartSUM(a)
    /\ Start28b("home") /\ Start28a /\ StartCB /\ StartAS /\ StartPY /\ StartTR(0) /\ StartS2(<<>>) /\ StartPT(<<>>) /\ StartBB(<<>>, [x |-> 0, y |-> 0])

InitS2 ==
    /\ \E a \in Arrays : StartS2(a)
    /\ Start28b("home") /\ Start28a /\ StartCB /\ StartAS /\ StartPY /\ StartTR(0) /\ StartSUM(<<>>) /\ StartPT(<<>>) /\ StartBB(<<>>, [x |-> 0, y |-> 0])

InitPT ==
    /\ \E input \in Inputs : StartPT(input)
    /\ Start28b("home") /\ Start28a /\ StartCB /\ StartAS /\ StartPY /\ StartTR(0) /\ StartSUM(<<>>) /\ StartS2(<<>>) /\ StartBB(<<>>, [x |-> 0, y |-> 0])

InitBB ==
    /\ \E b \in {<<>>} \cup {<<box>> : box \in BoundingBoxes}, p \in Coordinates : StartBB(b, p)
    /\ Start28b("home") /\ Start28a /\ StartCB /\ StartAS /\ StartPY /\ StartTR(0) /\ StartSUM(<<>>) /\ StartS2(<<>>) /\ StartPT(<<>>)

Spec28b == Init28b /\ [][Next28b]_vars
Spec28a == Init28a /\ [][Next28a]_vars
SpecCB == InitCB /\ [][NextCB]_vars
SpecAS == InitAS /\ [][NextAS]_vars
SpecPY == InitPY /\ [][NextPY]_vars
SpecTR == InitTR /\ [][NextTR]_vars
SpecSUM == InitSUM /\ [][NextSUM]_vars
SpecS2 == InitS2 /\ [][NextS2]_vars
SpecPT1 == InitPT /\ [][NextPT1]_vars
SpecPT3 == InitPT /\ [][NextPT3]_vars
SpecBB == InitBB /\ [][NextBB]_vars

=============================================================================
